---- MODULE Spec2Model ----
(***************************************************************************)
(* Model of comptagenIA: invoice extraction, bank statement loading and    *)
(* invoice-to-transaction matching (src/src/utils.py,                      *)
(* src/src/invoice_extraction.py, src/src/llm_extraction.py,               *)
(* src/src/bank_matching.py).                                              *)
(*                                                                         *)
(* Conventions.                                                            *)
(*  - A text is a sequence of one-character strings.  "nbsp" stands for    *)
(*    U+00A0 and "nnbsp" for U+202F.                                       *)
(*  - A number returned by parse_amount is a record [neg, units, cents]:   *)
(*    its sign, the digits of its integer part without leading zeros and   *)
(*    its hundredths.  An amount of a table or an invoice is an integer    *)
(*    number of hundredths (1234.56 is 123456).                            *)
(*  - An optional value is the empty sequence (Python None / NaN) or a     *)
(*    one-element sequence <<v>>.                                          *)
(*  - A date is a record [m, d] of one fixed non-leap year.                *)
(***************************************************************************)
EXTENDS Integers, Sequences, FiniteSets, TLC

VARIABLES
    amt_text,     \* parse_amount: the argument text
    amt_result,   \* parse_amount: the optional number returned
    invoices,     \* the invoice list (session_state["extracted_invoices"])
    bank_df,      \* the transaction table (session_state["bank_df"]), optional
    report,       \* the last result of match_invoices_to_bank
    stmt_file,    \* the statement file handed to load_bank_statement
    upload,       \* the files and the switch handed to extract_invoices_from_pdfs
    pc            \* position of the step being modelled

vars == <<amt_text, amt_result, invoices, bank_df, report, stmt_file, upload, pc>>

None == <<>>
Some(v) == <<v>>
IsNone(o) == o = <<>>
Val(o) == o[1]

Abs(n) == IF n < 0 THEN -n ELSE n

\* F of the value of an optional that is not None
OptMap(F(_), o) == IF IsNone(o) THEN None ELSE Some(F(Val(o)))

\* a when it is not None, otherwise b
OrElse(a, b) == IF IsNone(a) THEN b ELSE a

(***************************************************************************)
(* src/src/utils.py : parse_amount                                         *)
(***************************************************************************)

Digits == {"0", "1", "2", "3", "4", "5", "6", "7", "8", "9"}

DigitVal(c) ==
    CASE c = "0" -> 0 [] c = "1" -> 1 [] c = "2" -> 2 [] c = "3" -> 3
      [] c = "4" -> 4 [] c = "5" -> 5 [] c = "6" -> 6 [] c = "7" -> 7
      [] c = "8" -> 8 [] c = "9" -> 9

IsDigit(c) == c \in Digits
IsSpace(c) == c \in {" ", "nbsp", "nnbsp"}
IsSep(c) == c \in {".", ","}
NotSep(c) == ~IsSep(c)

\* the elements of t at the indices in S, in index order
Pick(t, S) ==
    [n \in 1..Cardinality(S) |->
        t[CHOOSE i \in S : Cardinality({j \in S : j <= i}) = n]]

\* the concatenation of a sequence of sequences
RECURSIVE Flatten(_)
Flatten(ss) == IF ss = <<>> THEN <<>> ELSE Head(ss) \o Flatten(Tail(ss))

\* text.replace(U+202F, " ").replace(U+00A0, " ")
ReplaceSpaces(t) ==
    [i \in 1..Len(t) |-> IF t[i] \in {"nbsp", "nnbsp"} THEN " " ELSE t[i]]

\* str.strip()
Strip(t) ==
    LET ns == {i \in 1..Len(t) : ~IsSpace(t[i])}
    IN  IF ns = {} THEN <<>>
        ELSE LET lo == CHOOSE i \in ns : \A j \in ns : i <= j
                 hi == CHOOSE i \in ns : \A j \in ns : j <= i
             IN  SubSeq(t, lo, hi)

\* re.sub(r"(?<=\d)\s+(?=\d)", "", t)
CollapseDigitSpaces(t) ==
    LET digitLeft(i) ==
            \E j \in 1..(i - 1) :
                IsDigit(t[j]) /\ \A k \in (j + 1)..(i - 1) : IsSpace(t[k])
        digitRight(i) ==
            \E j \in (i + 1)..Len(t) :
                IsDigit(t[j]) /\ \A k \in (i + 1)..(j - 1) : IsSpace(t[k])
        keep == {i \in 1..Len(t) :
                    ~(IsSpace(t[i]) /\ digitLeft(i) /\ digitRight(i))}
    IN  Pick(t, keep)

\* the value of a run of digit characters
RECURSIVE DigitsValue(_)
DigitsValue(ds) ==
    IF ds = <<>> THEN 0
    ELSE 10 * DigitsValue(SubSeq(ds, 1, Len(ds) - 1)) + DigitVal(ds[Len(ds)])

\* ([+-]?)\s* at position i: the position of the first character after them
RECURSIVE SkipSpaces(_, _)
SkipSpaces(t, p) ==
    IF p <= Len(t) /\ IsSpace(t[p]) THEN SkipSpaces(t, p + 1) ELSE p

AfterSign(t, i) == IF t[i] \in {"+", "-"} THEN i + 1 ELSE i

\* AMOUNT_RE matches at i iff a digit follows the optional sign and spaces
MatchesAt(t, i) ==
    LET p == SkipSpaces(t, AfterSign(t, i))
    IN  p <= Len(t) /\ IsDigit(t[p])

\* \d{1,3}: the number of digits taken at p (greedy, at most 3)
HeadLen(t, p) ==
    IF p + 2 <= Len(t) /\ IsDigit(t[p + 1]) /\ IsDigit(t[p + 2]) THEN 3
    ELSE IF p + 1 <= Len(t) /\ IsDigit(t[p + 1]) THEN 2
    ELSE 1

\* (?:[\.,]\d{3})* from position q: the position after the last group
RECURSIVE AfterGroups(_, _)
AfterGroups(t, q) ==
    IF q + 3 <= Len(t) /\ IsSep(t[q]) /\ IsDigit(t[q + 1])
       /\ IsDigit(t[q + 2]) /\ IsDigit(t[q + 3])
    THEN AfterGroups(t, q + 4)
    ELSE q

HasFraction_PointOnly(t, q) ==
    q + 2 <= Len(t) /\ t[q] = "." /\ IsDigit(t[q + 1]) /\ IsDigit(t[q + 2])

\* ([\.,](\d{2}))? at position q
HasFraction(t, q) ==
    q + 2 <= Len(t) /\ IsSep(t[q]) /\ IsDigit(t[q + 1]) /\ IsDigit(t[q + 2])

\* AMOUNT_RE.search(t): the groups of the leftmost match, or None
AmountSearch(t) ==
    LET starts == {i \in 1..Len(t) : MatchesAt(t, i)}
    IN  IF starts = {} THEN None
        ELSE LET i == CHOOSE s \in starts : \A s2 \in starts : s <= s2
                 p == SkipSpaces(t, AfterSign(t, i))
                 q == AfterGroups(t, p + HeadLen(t, p))
             IN  Some([sign    |-> IF t[i] \in {"+", "-"} THEN t[i] ELSE "",
                       intpart |-> SubSeq(t, p, q - 1),
                       dec     |-> IF HasFraction(t, q)
                                   THEN Some(SubSeq(t, q + 1, q + 2))
                                   ELSE None])

\* float(...) of a digit string: leading zeros do not count
RECURSIVE StripZeros(_)
StripZeros(ds) ==
    IF ds # <<>> /\ Head(ds) = "0" THEN StripZeros(Tail(ds)) ELSE ds

\* the number sign (units + cents / 100); -0.0 equals 0.0
Number(sign, units, cents) ==
    LET u == StripZeros(units)
    IN  [neg   |-> sign = "-" /\ (u # <<>> \/ cents # 0),
         units |-> u,
         cents |-> cents]

parse_amount(text) ==
    LET t == CollapseDigitSpaces(Strip(ReplaceSpaces(text)))
        m == AmountSearch(t)
    IN  IF IsNone(m) THEN None
        ELSE LET g == Val(m)
                 intpart == SelectSeq(g.intpart, NotSep)
                 dec == IF IsNone(g.dec) THEN 0 ELSE DigitsValue(Val(g.dec))
             IN  Some(Number(g.sign, intpart, dec))

\* a number as hundredths (numbers of at most 7 integer digits)
Cents(v) ==
    (IF v.neg THEN -1 ELSE 1) * (100 * DigitsValue(v.units) + v.cents)

(***************************************************************************)
(* Python values held by an invoice record.  A heuristic field is None, a  *)
(* string or a number; a field overlaid by the enrichment response can be  *)
(* any JSON value.                                                         *)
(***************************************************************************)

PyNone == [t |-> "none"]
PyStr(x) == [t |-> "str", s |-> x]
\* a string that is a date string of the model
PyDateStr(ds) == [t |-> "str", s |-> "date", date |-> ds]
PyNum(n) == [t |-> "num", n |-> n]
PyList == [t |-> "list"]

\* bool(v): None, "", 0 and [] are falsy; the model's lists are non-empty
Truthy(v) ==
    CASE v.t = "none" -> FALSE
      [] v.t = "str"  -> IF v.s = "text" THEN v.text # <<>> ELSE v.s # ""
      [] v.t = "num"  -> v.n # 0
      [] OTHER        -> TRUE

(***************************************************************************)
(* Dates and dateutil.parser.parse.  A date string is "iso" (Y-x1-x2),     *)
(* "dmy" (x1/x2/Y) or "junk" (no date in it).                              *)
(***************************************************************************)

DaysInMonth == <<31, 28, 31, 30, 31, 30, 31, 31, 30, 31, 30, 31>>

RECURSIVE DaysBefore(_)
DaysBefore(m) == IF m = 1 THEN 0 ELSE DaysBefore(m - 1) + DaysInMonth[m - 1]

\* date.toordinal() within the year
Ordinal(date) == DaysBefore(date.m) + date.d

IsoString(date) == [fmt |-> "iso", x1 |-> date.m, x2 |-> date.d]
DmyString(a, b) == [fmt |-> "dmy", x1 |-> a, x2 |-> b]
JunkString == [fmt |-> "junk", x1 |-> 0, x2 |-> 0]

\* the date string a Python string holds; any other string holds no date
DateStringOf(v) == IF v.s = "date" THEN v.date ELSE JunkString

\* datetime(year, month, day) raises ValueError for a date that does not exist
ValidDate(m, d) == m \in 1..12 /\ d \in 1..DaysInMonth[m]

\* dateutil's resolution of three numeric tokens (parser._ymd.resolve_ymd):
\* year first: year-month-day, or year-day-month when dayfirst and the last
\* token is at most 12; year last: day-month when the first token is above 12
\* or dayfirst and the second is at most 12, month-day otherwise.
\* The result is None when parse raises.
dateparser_parse(str, dayfirst) ==
    IF str.fmt = "junk" THEN None
    ELSE LET md == IF str.fmt = "iso"
                   THEN IF dayfirst /\ str.x2 <= 12
                        THEN [m |-> str.x2, d |-> str.x1]
                        ELSE [m |-> str.x1, d |-> str.x2]
                   ELSE IF str.x1 > 12 \/ (dayfirst /\ str.x2 <= 12)
                        THEN [m |-> str.x2, d |-> str.x1]
                        ELSE [m |-> str.x1, d |-> str.x2]
         IN  IF ValidDate(md.m, md.d) THEN Some(md) ELSE None

\* utils.parse_date
parse_date(str) == dateparser_parse(str, TRUE)

\* parse_date and parse_amount of the capture of a search, None when the
\* search does not match
ParsedDate(cap) == IF IsNone(cap) THEN None ELSE parse_date(Val(cap))
ParsedAmount(cap) == IF IsNone(cap) THEN None ELSE parse_amount(Val(cap))

(***************************************************************************)
(* rapidfuzz.fuzz.partial_ratio on the strings of the model, in hundredths *)
(* (100.0 is 10000): the best normalized similarity of the shorter string  *)
(* against the windows of the longer one.                                  *)
(***************************************************************************)

lower(x) ==
    CASE x = "INV-042" -> "inv-042"
      [] x = "Date" -> "date"
      [] x = "Libelle" -> "libelle"
      [] x = "Montant" -> "montant"
      [] x = "Debit" -> "debit"
      [] x = "Credit" -> "credit"
      [] x = "Solde" -> "solde"
      [] x = "VIR INV-042" -> "vir inv-042"
      [] x = "VIR AUTRE" -> "vir autre"
      [] x = "CB INV-043" -> "cb inv-043"
      [] OTHER -> x

partial_ratio(a, b) ==
    LET pair == {a, b}
    IN  CASE a = b -> 10000
          [] pair = {"inv-042", "vir inv-042"} -> 10000
          [] pair = {"inv-042", "cb inv-043"} -> 8571
          [] pair = {"inv-042", "vir autre"} -> 2500
          [] OTHER -> 0

(***************************************************************************)
(* src/src/bank_matching.py : the matcher                                  *)
(***************************************************************************)

_check_amount_match_GateOpenOnNone(invoice_total, transaction_amount, tolerance) ==
    IF invoice_total.t = "none" THEN [raised |-> FALSE, ok |-> TRUE]
    ELSE IF IsNone(transaction_amount) THEN [raised |-> FALSE, ok |-> FALSE]
    ELSE IF invoice_total.t # "num" THEN [raised |-> TRUE, ok |-> FALSE]
    ELSE [raised |-> FALSE,
          ok |-> Abs(Abs(Val(transaction_amount)) - Abs(invoice_total.n))
                    <= tolerance]

\* abs() of a string or a list raises TypeError
_check_amount_match(invoice_total, transaction_amount, tolerance) ==
    IF invoice_total.t = "none" \/ IsNone(transaction_amount)
    THEN [raised |-> FALSE, ok |-> FALSE]
    ELSE IF invoice_total.t # "num" THEN [raised |-> TRUE, ok |-> FALSE]
    ELSE [raised |-> FALSE,
          ok |-> Abs(Abs(Val(transaction_amount)) - Abs(invoice_total.n))
                    <= tolerance]

_check_date_match_EitherSide(invoice_date, transaction_date, max_days_delta) ==
    IF IsNone(invoice_date) THEN TRUE
    ELSE Abs(Ordinal(transaction_date) - Ordinal(Val(invoice_date))) <= max_days_delta

_check_date_match(invoice_date, transaction_date, max_days_delta) ==
    IF IsNone(invoice_date) THEN TRUE
    ELSE /\ Ordinal(transaction_date) >= Ordinal(Val(invoice_date))
         /\ Ordinal(transaction_date) - Ordinal(Val(invoice_date)) <= max_days_delta

\* invoice_number.lower() raises AttributeError on a value that is no string
_calculate_match_score(invoice_number, transaction_description, amount_matches_exactly) ==
    IF Truthy(invoice_number) /\ invoice_number.t # "str"
    THEN [raised |-> TRUE, score |-> 0]
    ELSE [raised |-> FALSE,
          score |-> (IF Truthy(invoice_number)
                     THEN partial_ratio(lower(invoice_number.s),
                                        lower(transaction_description))
                     ELSE 0)
                    + (IF amount_matches_exactly THEN 500 ELSE 0)]

\* inv_date: dateparser.parse(inv_date_s).date(), None when the field is
\* falsy or parse raises (a value that is no string raises TypeError)
InvoiceDateOf(invoice) ==
    IF Truthy(invoice.invoice_date) /\ invoice.invoice_date.t = "str"
    THEN dateparser_parse(DateStringOf(invoice.invoice_date), FALSE)
    ELSE None

ScanRow_LastWins(st, i, invoice, bank, amount_tolerance, max_days_delta) ==
    LET row == bank[i]
        am == _check_amount_match(invoice.total_amount, row.amount, amount_tolerance)
        exact == Abs(Val(row.amount)) = Abs(IF invoice.total_amount.t = "num"
                                             THEN invoice.total_amount.n ELSE 0)
        sc == _calculate_match_score(invoice.invoice_number, row.description, exact)
    IN  IF st.raised THEN st
        ELSE IF am.raised THEN [st EXCEPT !.raised = TRUE]
        ELSE IF ~am.ok THEN st
        ELSE IF ~_check_date_match(InvoiceDateOf(invoice), Val(row.date),
                                   max_days_delta)
             THEN st
        ELSE IF sc.raised THEN [st EXCEPT !.raised = TRUE]
        ELSE IF sc.score >= st.best_score
             THEN [st EXCEPT !.best_score = sc.score, !.best_row = i]
        ELSE st

\* one iteration of "for _, row in bank_df.iterrows()": the state of the scan
\* is [raised, best_score, best_row] and best_row is a row index, 0 for None
ScanRow(st, i, invoice, bank, amount_tolerance, max_days_delta) ==
    LET row == bank[i]
        am == _check_amount_match(invoice.total_amount, row.amount, amount_tolerance)
        exact == Abs(Val(row.amount)) = Abs(IF invoice.total_amount.t = "num"
                                             THEN invoice.total_amount.n ELSE 0)
        sc == _calculate_match_score(invoice.invoice_number, row.description, exact)
    IN  IF st.raised THEN st
        ELSE IF am.raised THEN [st EXCEPT !.raised = TRUE]
        ELSE IF ~am.ok THEN st
        ELSE IF ~_check_date_match(InvoiceDateOf(invoice), Val(row.date),
                                   max_days_delta)
             THEN st
        ELSE IF sc.raised THEN [st EXCEPT !.raised = TRUE]
        ELSE IF sc.score > st.best_score
             THEN [st EXCEPT !.best_score = sc.score, !.best_row = i]
        ELSE st

RECURSIVE Scan(_, _, _, _, _, _)
Scan(st, i, invoice, bank, amount_tolerance, max_days_delta) ==
    IF i > Len(bank) THEN st
    ELSE Scan(ScanRow(st, i, invoice, bank, amount_tolerance, max_days_delta),
              i + 1, invoice, bank, amount_tolerance, max_days_delta)

\* the result is [raised], and when not raised [found] and the match fields
find_best_match(invoice, bank, amount_tolerance, max_days_delta) ==
    LET st == Scan([raised |-> FALSE, best_score |-> -100, best_row |-> 0],
                   1, invoice, bank, amount_tolerance, max_days_delta)
        none == [raised |-> st.raised, found |-> FALSE, match_score |-> None,
                 bank_date |-> None, bank_amount |-> None,
                 bank_description |-> None]
    IN  IF st.raised \/ st.best_row = 0 THEN none
        ELSE [raised |-> FALSE, found |-> TRUE,
              match_score |-> Some(st.best_score),
              bank_date |-> Some(IsoString(Val(bank[st.best_row].date))),
              bank_amount |-> bank[st.best_row].amount,
              bank_description |-> Some(bank[st.best_row].description)]

\* the row appended for one invoice; a key the row lacks is None (NaN in
\* the DataFrame)
ReportRow(inv, match_result) ==
    [filename |-> inv.filename,
     invoice_number |-> inv.invoice_number,
     invoice_date |-> inv.invoice_date,
     total_amount |-> inv.total_amount,
     matched |-> match_result.found,
     match_score |-> match_result.match_score,
     bank_date |-> match_result.bank_date,
     bank_amount |-> match_result.bank_amount,
     bank_description |-> match_result.bank_description]

RECURSIVE MatchRows(_, _, _, _)
MatchRows(invs, bank, amount_tolerance, max_days_delta) ==
    IF invs = <<>> THEN <<>>
    ELSE <<ReportRow(Head(invs),
                     find_best_match(Head(invs), bank, amount_tolerance,
                                     max_days_delta))>>
         \o MatchRows(Tail(invs), bank, amount_tolerance, max_days_delta)

RECURSIVE MatchRows_MatchedOnly(_, _, _, _)
MatchRows_MatchedOnly(invs, bank, amount_tolerance, max_days_delta) ==
    IF invs = <<>> THEN <<>>
    ELSE LET r == find_best_match(Head(invs), bank, amount_tolerance, max_days_delta)
         IN  (IF r.found THEN <<ReportRow(Head(invs), r)>> ELSE <<>>)
             \o MatchRows_MatchedOnly(Tail(invs), bank, amount_tolerance,
                                      max_days_delta)

match_invoices_to_bank_MatchedOnly(invs, bank, amount_tolerance, max_days_delta) ==
    [raised |-> FALSE,
     rows |-> MatchRows_MatchedOnly(invs, bank, amount_tolerance, max_days_delta),
     amount_tolerance |-> amount_tolerance,
     max_days_delta |-> max_days_delta]

\* the report, or raised when find_best_match raised for some invoice; the
\* arguments of the call are kept with the report
match_invoices_to_bank(invs, bank, amount_tolerance, max_days_delta) ==
    LET raised == \E i \in 1..Len(invs) :
                      find_best_match(invs[i], bank, amount_tolerance,
                                      max_days_delta).raised
    IN  [raised |-> raised,
         rows |-> IF raised THEN <<>>
                  ELSE MatchRows(invs, bank, amount_tolerance, max_days_delta),
         amount_tolerance |-> amount_tolerance,
         max_days_delta |-> max_days_delta]

(***************************************************************************)
(* Cells of a statement source.  A cell is None (also NaN), a number, a    *)
(* datetime, or a string: a date string, a text (a sequence of characters, *)
(* an amount as written) or a word (a label, a description).               *)
(***************************************************************************)

CNone == PyNone
CNum(n) == PyNum(n)
CWord(w) == PyStr(w)
CDate(ds) == PyDateStr(ds)
CText(chars) == [t |-> "str", s |-> "text", text |-> chars]
CDatetime(date) == [t |-> "datetime", date |-> date]

TwoDigits(n) ==
    LET ds == <<"0", "1", "2", "3", "4", "5", "6", "7", "8", "9">>
    IN  <<ds[(n \div 10) + 1], ds[(n % 10) + 1]>>

\* str(v) of a cell, as characters; a word has no digit, sign or separator
TextOf(c) ==
    CASE c.t = "str" /\ c.s = "text" -> c.text
      [] c.t = "str" /\ c.s = "date" ->
            IF c.date.fmt = "dmy"
            THEN TwoDigits(c.date.x1) \o <<"/">> \o TwoDigits(c.date.x2)
                 \o <<"/", "2", "0", "2", "4">>
            ELSE IF c.date.fmt = "iso"
            THEN <<"2", "0", "2", "4", "-">> \o TwoDigits(c.date.x1) \o <<"-">>
                 \o TwoDigits(c.date.x2)
            ELSE <<"n", "/", "a">>
      [] OTHER -> <<"x">>

\* float(s) on a text of at most 2 decimals: optional sign, digits, optional
\* point and digits; None when float raises ValueError
FloatOf(t) ==
    LET sg == IF t # <<>> /\ t[1] \in {"+", "-"} THEN 1 ELSE 0
        body == SubSeq(t, sg + 1, Len(t))
        points == {i \in 1..Len(body) : body[i] = "."}
        p == IF points = {} THEN Len(body) + 1 ELSE CHOOSE i \in points : TRUE
        units == SubSeq(body, 1, p - 1)
        decs == SubSeq(body, p + 1, Len(body))
    IN  IF /\ Cardinality(points) <= 1
           /\ \A i \in 1..Len(body) : IsDigit(body[i]) \/ body[i] = "."
           /\ Len(units) + Len(decs) >= 1
           /\ Len(decs) <= 2
        THEN Some(Number(IF sg = 1 THEN t[1] ELSE "", units,
                         IF Len(decs) = 1 THEN 10 * DigitsValue(decs)
                         ELSE DigitsValue(decs)))
        ELSE None

(***************************************************************************)
(* src/src/bank_matching.py : reading a PDF statement                      *)
(***************************************************************************)

\* _std_header: the header without accents, lower-cased, one space between
\* alphanumeric runs
_std_header(h) ==
    CASE h = "Date" -> "date"
      [] h = "Date valeur" -> "date valeur"
      [] h = "Libellé" -> "libelle"
      [] h = "Description" -> "description"
      [] h = "Montant" -> "montant"
      [] h = "Débit" -> "debit"
      [] h = "Crédit" -> "credit"
      [] h = "Solde" -> "solde"
      [] h = "Réf" -> "ref"
      [] OTHER -> h

\* c in h: the vocabulary terms that are substrings of a normalized header
TermsIn(h) ==
    CASE h = "date" -> {"date"}
      [] h = "date valeur" -> {"date"}
      [] h = "libelle" -> {"libelle"}
      [] h = "description" -> {"description"}
      [] h = "montant" -> {"montant"}
      [] h = "debit" -> {"debit"}
      [] h = "credit" -> {"credit"}
      [] h = "solde" -> {"solde"}
      [] OTHER -> {}

\* str(c or "").strip() of a header cell
HeaderText(c) == IF c.t = "str" THEN c.s ELSE ""

\* find(*cands): the first column whose header contains one of the terms,
\* 0 for None
FindColumn(std, cands) ==
    LET hits == {i \in 1..Len(std) : TermsIn(std[i]) \cap cands # {}}
    IN  IF hits = {} THEN 0 ELSE CHOOSE i \in hits : \A j \in hits : i <= j

\* the column map, None when no map: a key the map lacks is 0, and the -1
\* of a missing debit or credit column is 0 as well
_find_table_column_map(headers) ==
    LET std == [i \in 1..Len(headers) |-> _std_header(headers[i])]
        c_date == FindColumn(std, {"date"})
        c_desc == FindColumn(std, {"description", "libelle", "label", "narration",
                                   "details"})
        c_amount == FindColumn(std, {"montant", "amount", "solde"})
        c_debit == FindColumn(std, {"debit", "retrait"})
        c_credit == FindColumn(std, {"credit", "versement"})
    IN  IF c_date = 0 \/ c_desc = 0 THEN None
        ELSE IF c_amount # 0
        THEN Some([date |-> c_date, description |-> c_desc, amount |-> c_amount,
                   debit |-> 0, credit |-> 0])
        ELSE IF c_debit # 0 \/ c_credit # 0
        THEN Some([date |-> c_date, description |-> c_desc, amount |-> 0,
                   debit |-> c_debit, credit |-> c_credit])
        ELSE None

\* d.get(headers[i]) with d = {headers[i]: row[i]}: the row is padded with
\* None, and of two columns of one header the dict keeps the last
CellUnder(headers, r, i) ==
    LET same == {j \in 1..Len(headers) : headers[j] = headers[i]}
        last == CHOOSE j \in same : \A k \in same : k <= j
    IN  IF last <= Len(r) THEN r[last] ELSE CNone

\* the cell of column i, None for a column the map lacks
ColumnCell(headers, r, i) == IF i # 0 THEN CellUnder(headers, r, i) ELSE CNone

\* _parse_amount(str(val)) if val is not None else None
ParsedCell(c) == IF c.t # "none" THEN parse_amount(TextOf(c)) ELSE None

\* debit negative, credit positive, zero as absent
SignedAmount(dv, cv) ==
    IF ~IsNone(dv) /\ Val(dv) # 0 THEN CNum(-Abs(Val(dv)))
    ELSE IF ~IsNone(cv) /\ Val(cv) # 0 THEN CNum(Abs(Val(cv)))
    ELSE CNone

\* the amount of a row without amount column
DebitCreditAmount(headers, r, col_map) ==
    SignedAmount(OptMap(Cents, ParsedCell(ColumnCell(headers, r, col_map.debit))),
                 OptMap(Cents, ParsedCell(ColumnCell(headers, r, col_map.credit))))

\* the record of one data row
RecordOfRow(headers, r, col_map) ==
    [date |-> CellUnder(headers, r, col_map.date),
     description |-> CellUnder(headers, r, col_map.description),
     amount |-> IF col_map.amount # 0
                THEN CellUnder(headers, r, col_map.amount)
                ELSE DebitCreditAmount(headers, r, col_map)]

\* the header row: the first of the first 5 rows with at least 2 non-empty
\* cells, 0 for None
HeaderIndex(table) ==
    LET cands == {i \in 1..Len(table) :
                    /\ i <= 5
                    /\ Cardinality({j \in 1..Len(table[i]) :
                                        HeaderText(table[i][j]) # ""}) >= 2}
    IN  IF cands = {} THEN 0 ELSE CHOOSE i \in cands : \A j \in cands : i <= j

RecordsWithMap(table, header_idx, headers, col_map) ==
    IF IsNone(col_map) THEN <<>>
    ELSE [k \in 1..(Len(table) - header_idx) |->
            RecordOfRow(headers, table[header_idx + k], Val(col_map))]

RecordsUnder(table, header_idx, headers) ==
    RecordsWithMap(table, header_idx, headers, _find_table_column_map(headers))

RecordsFrom(table, header_idx) ==
    IF header_idx = 0 THEN <<>>
    ELSE RecordsUnder(table, header_idx,
                      [j \in 1..Len(table[header_idx]) |->
                          HeaderText(table[header_idx][j])])

\* the records of one extracted table, <<>> when the function returns None
_build_df_from_table(table) == RecordsFrom(table, HeaderIndex(table))

\* frames.append(df) for a frame that is not empty
NonEmptyFrame(df) == IF df # <<>> THEN <<df>> ELSE <<>>

RECURSIVE FramesOfTables(_)
FramesOfTables(tables) ==
    IF tables = <<>> THEN <<>>
    ELSE NonEmptyFrame(_build_df_from_table(Head(tables)))
         \o FramesOfTables(Tail(tables))

\* the record of a text line when both the date and the amount parse
LineRecord(ln, dt, amt) ==
    IF ~IsNone(dt) /\ ~IsNone(amt)
    THEN <<[date |-> CDatetime(Val(dt)), description |-> CWord(ln.desc),
            amount |-> CNum(Cents(Val(amt)))]>>
    ELSE <<>>

\* a text line is [date_s, desc, amt_s]: what date_re and amt_re capture,
\* None where the expression does not match
RECURSIVE RecordsOfLines(_)
RecordsOfLines(lines) ==
    IF lines = <<>> THEN <<>>
    ELSE LineRecord(Head(lines), ParsedDate(Head(lines).date_s),
                    ParsedAmount(Head(lines).amt_s))
         \o RecordsOfLines(Tail(lines))

\* the frames of the pages: per page the non-empty tables, then the text
\* lines of the page when some line gave a record
RECURSIVE FramesOfPages(_)
FramesOfPages(pages) ==
    IF pages = <<>> THEN <<>>
    ELSE FramesOfTables(Head(pages).tables)
         \o NonEmptyFrame(RecordsOfLines(Head(pages).lines))
         \o FramesOfPages(Tail(pages))

_norm_date(v) ==
    IF v.t = "datetime" THEN Some(v.date)
    ELSE IF v.t = "str" /\ v.s = "date" THEN dateparser_parse(v.date, TRUE)
    ELSE None

_norm_amount(v) ==
    IF v.t = "num" THEN Some(v.n) ELSE OptMap(Cents, parse_amount(TextOf(v)))

\* str(v) of a description cell
DescriptionText(v) ==
    IF v.t = "str" /\ v.s \notin {"date", "text"} THEN v.s ELSE "None"

\* the cell of an optional: None is NaT or NaN
CellOf(C(_), o) == IF IsNone(o) THEN CNone ELSE C(Val(o))

NormRecord(rec) ==
    [date |-> CellOf(CDatetime, _norm_date(rec.date)),
     description |-> CWord(DescriptionText(rec.description)),
     amount |-> CellOf(CNum, _norm_amount(rec.amount))]

NotNullDateAmount(rec) == rec.date.t # "none" /\ rec.amount.t # "none"

\* the rows <<date, description, amount>> of a frame
RowsOf(df) == [k \in 1..Len(df) |-> <<df[k].date, df[k].description, df[k].amount>>]

\* out.dropna(subset=["date", "amount"]).reset_index(drop=True)
PdfRows(df) ==
    RowsOf(SelectSeq([k \in 1..Len(df) |-> NormRecord(df[k])], NotNullDateAmount))

FrameOfPdf(frames) ==
    IF frames = <<>>
    THEN [raised |-> TRUE, columns |-> <<>>, rows |-> <<>>]
    ELSE [raised |-> FALSE,
          columns |-> <<"date", "description", "amount">>,
          rows |-> PdfRows(Flatten(frames))]

\* [raised, columns, rows]: the DataFrame of a PDF statement; raised is the
\* ValueError of a PDF without frames
_read_bank_pdf_to_dataframe(file) == FrameOfPdf(FramesOfPages(file.pages))

(***************************************************************************)
(* src/src/bank_matching.py : load_bank_statement                          *)
(***************************************************************************)

\* [raised, columns, rows]: a PDF is read by _read_bank_pdf_to_dataframe, a
\* spreadsheet as it is, and a CSV file is readable when one of the
\* separators tried gives more than one column
_read_statement_to_dataframe(file) ==
    IF file.kind = "pdf" THEN _read_bank_pdf_to_dataframe(file)
    ELSE IF file.kind = "xlsx" \/ Len(file.columns) > 1
    THEN [raised |-> FALSE, columns |-> file.columns, rows |-> file.rows]
    ELSE [raised |-> TRUE, columns |-> <<>>, rows |-> <<>>]

\* the best fuzz.partial_ratio, in hundredths, of a lower-cased column name
\* against the candidate labels of a field
FuzzyScore(field, c) ==
    CASE field = "date" ->
            (CASE c = "date" -> 10000 [] c = "libelle" -> 5000
               [] c = "montant" -> 5714 [] c = "debit" -> 6667
               [] c = "credit" -> 5714 [] c = "solde" -> 6667
               [] c = "description" -> 5000 [] c = "amount" -> 5714
               [] OTHER -> 0)
      [] field = "description" ->
            (CASE c = "date" -> 6667 [] c = "libelle" -> 10000
               [] c = "montant" -> 4615 [] c = "debit" -> 7500
               [] c = "credit" -> 6667 [] c = "solde" -> 5714
               [] c = "description" -> 10000 [] c = "amount" -> 4444
               [] OTHER -> 0)
      [] field = "amount" ->
            (CASE c = "date" -> 6667 [] c = "libelle" -> 3333
               [] c = "montant" -> 10000 [] c = "debit" -> 10000
               [] c = "credit" -> 10000 [] c = "solde" -> 5714
               [] c = "description" -> 5000 [] c = "amount" -> 10000
               [] OTHER -> 0)

\* pick(*cands): the column equal to the earliest candidate some column
\* equals; otherwise the first column of the best fuzzy score, None (0) when
\* every score is 0.  The result is a column index.
PickColumn(columns, field, cands) ==
    LET cols == [i \in 1..Len(columns) |-> lower(columns[i])]
        exact == {k \in 1..Len(cands) : \E i \in 1..Len(cols) : cols[i] = cands[k]}
        first == CHOOSE k \in exact : \A k2 \in exact : k <= k2
        best == {i \in 1..Len(cols) :
                    /\ FuzzyScore(field, cols[i]) > 0
                    /\ \A j \in 1..Len(cols) :
                          FuzzyScore(field, cols[j]) <= FuzzyScore(field, cols[i])}
    IN  IF exact # {}
        THEN CHOOSE i \in 1..Len(cols) :
                /\ cols[i] = cands[first]
                /\ \A j \in 1..Len(cols) : cols[j] = cands[first] => j <= i
        ELSE IF best = {} THEN 0
        ELSE CHOOSE i \in best : \A j \in best : i <= j

ColumnsPicked(c_date, c_desc, c_amount) ==
    [raised |-> c_date = 0 \/ c_desc = 0 \/ c_amount = 0,
     date |-> c_date, description |-> c_desc, amount |-> c_amount]

\* [raised, date, description, amount]: raised is the ValueError of an
\* undetected column
_find_statement_columns(df) ==
    ColumnsPicked(
        PickColumn(df.columns, "date",
                   <<"date", "operation date", "transaction date", "booking date",
                     "valeur", "date operation">>),
        PickColumn(df.columns, "description",
                   <<"description", "label", "libellé", "libelle", "narration",
                     "detail", "details">>),
        PickColumn(df.columns, "amount",
                   <<"amount", "montant", "debit/credit", "debit", "credit">>))

\* the inner parse_date on astype(str) of a date cell
NormalizeDate(v) ==
    CASE v.t = "datetime" -> dateparser_parse(IsoString(v.date), TRUE)
      [] v.t = "str" /\ v.s = "date" -> dateparser_parse(v.date, TRUE)
      [] OTHER -> None

RemoveBlanks(t) ==
    LET NotBlank(c) == c # " " IN SelectSeq(Strip(ReplaceSpaces(t)), NotBlank)

CommaToPoint(t) == [i \in 1..Len(t) |-> IF t[i] = "," THEN "." ELSE t[i]]

\* the inner parse_amount
NormalizeAmount(v) ==
    CASE v.t = "none" -> None
      [] v.t = "num" -> Some(v.n)
      [] v.t = "str" -> OptMap(Cents, FloatOf(CommaToPoint(RemoveBlanks(TextOf(v)))))
      [] OTHER -> None

NormalizedRow(r, column_map) ==
    [date |-> NormalizeDate(r[column_map.date]),
     description |-> DescriptionText(r[column_map.description]),
     amount |-> NormalizeAmount(r[column_map.amount])]

HasDateAndAmount(row) == ~IsNone(row.date) /\ ~IsNone(row.amount)

HasDate(row) == ~IsNone(row.date)

DropNa_DateOnly(rows) == SelectSeq(rows, HasDate)

\* the rows kept by dropna(subset=["date", "amount"])
DropNa(rows) == SelectSeq(rows, HasDateAndAmount)

\* the transaction table: rows [date, description, amount], date and amount
\* optional (NaT, NaN)
_normalize_statement_dataframe(df, column_map) ==
    DropNa([k \in 1..Len(df.rows) |-> NormalizedRow(df.rows[k], column_map)])

LoadWithMap(df, column_map) ==
    IF column_map.raised THEN [raised |-> TRUE, table |-> <<>>]
    ELSE [raised |-> FALSE,
          table |-> _normalize_statement_dataframe(df, column_map)]

LoadFrame(df) ==
    IF df.raised THEN [raised |-> TRUE, table |-> <<>>]
    ELSE LoadWithMap(df, _find_statement_columns(df))

\* [raised, table]
load_bank_statement(file) == LoadFrame(_read_statement_to_dataframe(file))

(***************************************************************************)
(* src/src/invoice_extraction.py : heuristic extraction.  The text of an   *)
(* invoice is given by what the searches of the extraction find in its     *)
(* lower-cased form:                                                       *)
(*   numbers  the capture of each of INVOICE_NUMBER_PATTERNS, in order     *)
(*   hint     the capture of DATE_HINTS                                    *)
(*   token    the capture of the fallback date search                      *)
(*   totals   the capture of each of TOTAL_PATTERNS, in order              *)
(*   amounts  the matches of the fallback amount search                    *)
(* a capture being None when the search does not match.                    *)
(***************************************************************************)

\* m.group(1).strip().strip(":#-/ ")
StripMarks(x) == IF x = "---" THEN "" ELSE x

RECURSIVE _find_invoice_number(_)
_find_invoice_number(numbers) ==
    IF numbers = <<>> THEN PyNone
    ELSE IF ~IsNone(Head(numbers)) THEN PyStr(StripMarks(Val(Head(numbers))))
    ELSE _find_invoice_number(Tail(numbers))

\* dt.date().isoformat() of a capture, None when there is no capture or it
\* does not parse
IsoOfCapture(cap) == OptMap(IsoString, ParsedDate(cap))

\* the value of a field: None, or the value found
FieldOf(P(_), o) == IF IsNone(o) THEN PyNone ELSE P(Val(o))

_find_invoice_date(low_text) ==
    FieldOf(PyDateStr, OrElse(IsoOfCapture(low_text.hint), IsoOfCapture(low_text.token)))

\* the first capture of TOTAL_PATTERNS that parse_amount accepts
RECURSIVE FirstTotal(_)
FirstTotal(totals) ==
    IF totals = <<>> THEN None
    ELSE OrElse(ParsedAmount(Head(totals)), FirstTotal(Tail(totals)))

\* max(candidates), None for no candidate
MaxOf(candidates) ==
    IF candidates = {} THEN None
    ELSE Some(CHOOSE c \in candidates : \A d \in candidates : d <= c)

\* max(candidates) of the fallback, in hundredths
MaxCandidate(amounts) ==
    MaxOf({ Cents(Val(c)) :
              c \in { parse_amount(amounts[i]) : i \in 1..Len(amounts) } \ {None} })

_find_total_amount(low_text) ==
    FieldOf(PyNum, OrElse(OptMap(Cents, FirstTotal(low_text.totals)),
                          MaxCandidate(low_text.amounts)))

\* the four fields of heuristic_parse; the currency is "EUR" with or
\* without a marker in the text
heuristic_parse(text) ==
    [invoice_number |-> _find_invoice_number(text.numbers),
     invoice_date |-> _find_invoice_date(text),
     total_amount |-> _find_total_amount(text),
     currency |-> PyStr("EUR")]

(***************************************************************************)
(* src/src/llm_extraction.py : the enrichment service.  Its answer is      *)
(*   "error"   no answer, an HTTP error status, a body that is no JSON     *)
(*             object: the call raises                                     *)
(*   "text"    the "response" field is no JSON text                        *)
(*   "value"   the "response" field is JSON but no object                  *)
(*   "object"  the "response" field is a JSON object, fields holding the   *)
(*             values of its keys (None for a key of the four fields that  *)
(*             is absent)                                                  *)
(***************************************************************************)

NoFields ==
    [invoice_number |-> PyNone, invoice_date |-> PyNone,
     total_amount |-> PyNone, currency |-> PyNone]

\* the number when float succeeds, the value kept when it raises
FloatOr(v, f) == IF IsNone(f) THEN v ELSE PyNum(Cents(Val(f)))

\* float(parsed["total_amount"].replace(",", "."))
NormalizeTotal(v) ==
    IF v.t = "str"
    THEN FloatOr(v, FloatOf(CommaToPoint(Strip(ReplaceSpaces(TextOf(v))))))
    ELSE v

\* [raised, fields]: {} is the object without any key
extract_with_llm(answer) ==
    CASE answer.kind = "error" -> [raised |-> TRUE, fields |-> NoFields]
      [] answer.kind = "object" ->
            [raised |-> FALSE,
             fields |-> [answer.fields EXCEPT
                            !.total_amount = NormalizeTotal(@)]]
      [] OTHER -> [raised |-> FALSE, fields |-> NoFields]

\* the keys of a JSON object whose value is truthy
TruthyKeys(enriched) == {k \in DOMAIN enriched : Truthy(enriched[k])}

\* parsed.update({k: v for k, v in enriched.items() if v}): a key of the
\* answer that parsed does not hold is added to it
Overlay(parsed, enriched) ==
    [k \in DOMAIN parsed \cup TruthyKeys(enriched) |->
        IF k \in TruthyKeys(enriched) THEN enriched[k] ELSE parsed[k]]

\* the fields after the try block: an exception of the call leaves them
Enrich(parsed, enriched, use_llm) ==
    IF use_llm /\ ~enriched.raised THEN Overlay(parsed, enriched.fields) ELSE parsed

\* a variant that keeps a filename the fields already hold
InvoiceRecord_KeepsEnriched(f, fields) ==
    [k \in DOMAIN fields \cup {"filename", "raw_text"} |->
        IF k = "filename"
        THEN IF "filename" \in DOMAIN fields THEN fields.filename.s ELSE f.name
        ELSE IF k = "raw_text" THEN Val(f.text).id
        ELSE fields[k]]

\* parsed["filename"] = getattr(f, "name", ...); parsed["raw_text"] = text:
\* both keys are set after the overlay, whatever the fields hold for them
InvoiceRecord(f, fields) ==
    [k \in DOMAIN fields \cup {"filename", "raw_text"} |->
        IF k = "filename" THEN f.name
        ELSE IF k = "raw_text" THEN Val(f.text).id
        ELSE fields[k]]

\* the record of one file: f is [name, text, answer], text None for a file
\* that pdfplumber cannot open, answer what the service replies for the text
ExtractOne(f, use_llm) ==
    InvoiceRecord(f, Enrich(heuristic_parse(Val(f.text)),
                            extract_with_llm(f.answer), use_llm))

\* a variant without the try block around the call of the service
extract_invoices_from_pdfs_AbortOnFailure(files, use_llm) ==
    IF \E k \in 1..Len(files) :
          IsNone(files[k].text) \/ (use_llm /\ extract_with_llm(files[k].answer).raised)
    THEN [raised |-> TRUE, results |-> <<>>]
    ELSE [raised |-> FALSE,
          results |-> [k \in 1..Len(files) |-> ExtractOne(files[k], use_llm)]]

\* [raised, results]: pdfplumber.open raises for a file it cannot open,
\* which ends the batch
extract_invoices_from_pdfs(files, use_llm) ==
    IF \E k \in 1..Len(files) : IsNone(files[k].text)
    THEN [raised |-> TRUE, results |-> <<>>]
    ELSE [raised |-> FALSE,
          results |-> [k \in 1..Len(files) |-> ExtractOne(files[k], use_llm)]]

(***************************************************************************)
(* Inputs of parse_amount                                                  *)
(***************************************************************************)

MaxGroups == 2
MaxFreeLen == 4

\* sign, head, groups each introduced by a separator, optional 2-digit fraction
GroupedTexts ==
    LET Signs == {<<>>, <<"-">>, <<"+">>}
        Heads == {<<"1">>, <<"0">>, <<"5", "0">>, <<"1", "0", "0">>, <<"9", "9", "9">>}
        Triples == {<<"2", "3", "4">>, <<"0", "0", "0">>}
        GroupSeps == {".", ",", " ", "nbsp"}
        Fractions == {<<"5", "6">>, <<"2", "5">>, <<"0", "0">>}
    IN  { sg \o hd \o Flatten(gs) \o fr :
            sg \in Signs, hd \in Heads,
            gs \in UNION {[1..n -> {<<s>> \o tr : s \in GroupSeps, tr \in Triples}]
                            : n \in 0..MaxGroups},
            fr \in {<<>>} \cup {<<s>> \o f : s \in {".", ","}, f \in Fractions} }

\* any text over a small alphabet
FreeTexts ==
    UNION {[1..n -> {"1", "0", "-", ".", ",", " ", "x"}] : n \in 0..MaxFreeLen}

AmountTexts == GroupedTexts \cup FreeTexts

(***************************************************************************)
(* Specification of parse_amount: the caller supplies a text, the function *)
(* is applied to it.                                                       *)
(***************************************************************************)

InitAmount ==
    /\ amt_text \in AmountTexts
    /\ amt_result = None
    /\ invoices = <<>>
    /\ bank_df = None
    /\ report = <<>>
    /\ stmt_file = None
    /\ upload = None
    /\ pc = "amount_call"

ParseAmount ==
    /\ pc = "amount_call"
    /\ amt_result' = parse_amount(amt_text)
    /\ pc' = "amount_return"
    /\ UNCHANGED <<amt_text, invoices, bank_df, report, stmt_file, upload>>

NextAmount == ParseAmount

SpecAmount == InitAmount /\ [][NextAmount]_vars

(***************************************************************************)
(* Claims about parse_amount                                               *)
(***************************************************************************)

\* the grammar of C6, read from the text itself: optional sign, 1-3 digits,
\* groups of a separator and 3 digits, optional separator and 2 digits
SignLen(t) == IF t # <<>> /\ t[1] \in {"+", "-"} THEN 1 ELSE 0

EndsWithFraction(t) ==
    /\ Len(t) - SignLen(t) >= 4
    /\ IsSep(t[Len(t) - 2])
    /\ IsDigit(t[Len(t) - 1])
    /\ IsDigit(t[Len(t)])

IntegerPartOf(t) ==
    SubSeq(t, SignLen(t) + 1, IF EndsWithFraction(t) THEN Len(t) - 3 ELSE Len(t))

IsGroupedInteger(b, seps) ==
    \E h \in 1..3 :
        /\ Len(b) >= h
        /\ (Len(b) - h) % 4 = 0
        /\ \A i \in 1..Len(b) :
              IF i > h /\ (i - h) % 4 = 1 THEN b[i] \in seps ELSE IsDigit(b[i])

InGroupedForm(t) == IsGroupedInteger(IntegerPartOf(t), {".", ","})

\* the number such a text denotes: the digits of the integer part, then the
\* two digits of the fraction
DenotedNumber(t) ==
    Number(IF SignLen(t) = 1 THEN t[1] ELSE "",
           SelectSeq(IntegerPartOf(t), IsDigit),
           IF EndsWithFraction(t)
           THEN 10 * DigitVal(t[Len(t) - 1]) + DigitVal(t[Len(t)])
           ELSE 0)

HasDigit(t) == \E i \in 1..Len(t) : IsDigit(t[i])

\* C6: for every text in the grouped form (sign, 1-3 digits, 3-digit groups
\* introduced by '.' or ',', optional 2-digit fraction introduced by '.' or
\* ','), parse_amount returns the number whose integer digits are the
\* integer part without the separators and whose fraction is the 2 digits;
\* and parse_amount returns none only for a text without any digit.
C6_GroupedAmount ==
    pc = "amount_return" =>
        /\ InGroupedForm(amt_text) => amt_result = Some(DenotedNumber(amt_text))
        /\ IsNone(amt_result) => ~HasDigit(amt_text)

\* "1,234.56" and "1.234,56" style inputs with a sign, two mixed group
\* separators and a fraction have been parsed
C6_Witness ==
    /\ pc = "amount_return"
    /\ InGroupedForm(amt_text)
    /\ Len(amt_text) = 15
    /\ amt_text[1] = "-"
    /\ amt_text[5] = "." /\ amt_text[9] = "," /\ amt_text[13] = "."
    /\ amt_result = Some([neg |-> TRUE,
                          units |-> <<"1", "0", "0", "2", "3", "4", "0", "0", "0">>,
                          cents |-> 25])

\* the form of C7: digits, possibly separated by white space, then an
\* optional fraction of 2 digits
InSpacedForm(t) ==
    LET b == IntegerPartOf(t)
    IN  /\ SignLen(t) = 0
        /\ b # <<>>
        /\ IsDigit(b[1]) /\ IsDigit(b[Len(b)])
        /\ \A i \in 1..Len(b) : IsDigit(b[i]) \/ IsSpace(b[i])

\* C7: white space between digits is collapsed, so a space-grouped integer
\* part, or an ungrouped digit string of any length, parses to its full
\* value ("1 234,56" gives 1234.56).
C7_SpacedAmount ==
    pc = "amount_return" /\ InSpacedForm(amt_text) =>
        amt_result = Some(DenotedNumber(amt_text))

(***************************************************************************)
(* Inputs of the matcher: invoice records as heuristic_parse types them    *)
(* and transactions as load_bank_statement returns them (date and amount   *)
(* present).                                                               *)
(***************************************************************************)

MaxInvoices == 2
MaxRows == 2

InvoiceDay == [m |-> 1, d |-> 10]

FileNames == <<"a.pdf", "b.pdf", "c.pdf", "d.pdf">>

Invoice(number, date, total) ==
    [filename |-> "", invoice_number |-> number, invoice_date |-> date,
     total_amount |-> total, currency |-> PyStr("EUR"), raw_text |-> ""]

HeuristicInvoices ==
    { Invoice(PyStr("inv-042"), PyDateStr(IsoString(InvoiceDay)), PyNum(15000)),
      Invoice(PyNone, PyDateStr(IsoString(InvoiceDay)), PyNum(15000)),
      Invoice(PyStr("inv-042"), PyNone, PyNum(-15000)),
      Invoice(PyStr("inv-042"), PyDateStr(IsoString(InvoiceDay)), PyNone),
      Invoice(PyStr("inv-042"), PyDateStr(JunkString), PyNum(15000)) }

\* the k-th record of a batch carries the name of the k-th file
Named(invs) == [k \in 1..Len(invs) |-> [invs[k] EXCEPT !.filename = FileNames[k]]]

InvoiceLists ==
    {Named(l) : l \in UNION {[1..n -> HeuristicInvoices] : n \in 0..MaxInvoices}}

Transaction(m, d, amount, description) ==
    [date |-> Some([m |-> m, d |-> d]), description |-> description,
     amount |-> Some(amount)]

Transactions ==
    { Transaction(1, 15, -15000, "VIR INV-042"),
      Transaction(1, 20, -15000, "VIR AUTRE"),
      Transaction(1, 20, 15000, "VIR AUTRE"),
      Transaction(1, 15, 15002, "VIR INV-042"),
      Transaction(1, 5, -15000, "VIR INV-042"),
      Transaction(4, 30, -15000, "VIR INV-042"),
      Transaction(1, 15, -15500, "VIR INV-042") }

Tables == UNION {[1..n -> Transactions] : n \in 0..MaxRows}

Tolerances == {0, 2}
DayDeltas == {5, 90}

(***************************************************************************)
(* Statement files.  A spreadsheet or CSV file is its columns and rows of  *)
(* cells; a PDF is its pages, each with the tables and the text lines the  *)
(* PDF collaborator extracts.                                              *)
(***************************************************************************)

MaxStmtRows == 2
MaxLines == 1

\* the cells of the sample statements: dates 15/01/2024 and 05/01/2024, a
\* date cell without a date, amounts as written
Sample ==
    [d15 |-> CDate(DmyString(15, 1)),
     d05 |-> CDate(DmyString(5, 1)),
     junk |-> CDate(JunkString),
     a150 |-> CText(<<"1", "5", "0", ",", "0", "0">>),
     minus150 |-> CText(<<"-", "1", "5", "0", ",", "0", "0">>),
     a50 |-> CText(<<"5", "0", ",", "0", "0">>),
     a70 |-> CText(<<"7", "0", ",", "0", "0">>),
     a0 |-> CText(<<"0", ",", "0", "0">>),
     a950 |-> CText(<<"9", "5", "0", ",", "0", "0">>),
     abc |-> CText(<<"x", "x">>)]

SeqsUpTo(S, n) == UNION {[1..k -> S] : k \in 0..n}

\* spreadsheet and CSV sources: an amount column, debit and credit columns,
\* columns no label resembles, a single column
FrameLayouts ==
    { [columns |-> <<"Date", "Libelle", "Montant">>,
       rowset |-> { <<Sample.d15, CWord("VIR INV-042"), CNum(-15000)>>,
                    <<Sample.d05, CWord("VIR AUTRE"), Sample.a150>>,
                    <<Sample.junk, CWord("VIR AUTRE"), CNum(-15000)>>,
                    <<Sample.d15, CWord("VIR AUTRE"), Sample.abc>>,
                    <<Sample.d15, CWord("VIR AUTRE"), CNone>>,
                    <<CNone, CWord("VIR AUTRE"), CNum(15000)>> }],
      [columns |-> <<"Date", "Libelle", "Debit", "Credit">>,
       rowset |-> { <<Sample.d15, CWord("VIR INV-042"), CNum(5000), CNone>>,
                    <<Sample.d15, CWord("VIR AUTRE"), CNone, CNum(7000)>>,
                    <<Sample.d15, CWord("VIR AUTRE"), CNum(0), CNum(7000)>>,
                    <<Sample.d15, CWord("VIR AUTRE"), CNone, CNone>> }],
      [columns |-> <<"x", "y">>,
       rowset |-> { <<Sample.d15, CNum(-15000)>> }],
      [columns |-> <<"x">>,
       rowset |-> { <<Sample.d15>> }] }

FrameFiles ==
    UNION { { [kind |-> k, columns |-> l.columns, rows |-> rs, pages |-> <<>>] :
                k \in {"csv", "xlsx"}, rs \in SeqsUpTo(l.rowset, MaxStmtRows) } :
            l \in FrameLayouts }

\* tables of a PDF page: header row and data rows of strings
TableLayouts ==
    { [header |-> <<CWord("Date"), CWord("Libellé"), CWord("Montant")>>,
       rowset |-> { <<Sample.d15, CWord("VIR INV-042"), Sample.minus150>>,
                    <<Sample.d05, CWord("VIR AUTRE"), Sample.a150>>,
                    <<Sample.junk, CWord("VIR AUTRE"), Sample.a150>>,
                    <<Sample.d15, CWord("VIR AUTRE"), Sample.abc>> }],
      [header |-> <<CWord("Date"), CWord("Libellé"), CWord("Débit"), CWord("Crédit")>>,
       rowset |-> { <<Sample.d15, CWord("VIR INV-042"), Sample.a50, CNone>>,
                    <<Sample.d15, CWord("VIR AUTRE"), CText(<<>>), Sample.a70>>,
                    <<Sample.d15, CWord("VIR AUTRE"), Sample.a0, Sample.a70>>,
                    <<Sample.d15, CWord("VIR AUTRE"), CNone, CNone>> }],
      [header |-> <<CWord("Date"), CWord("Libellé"), CWord("Débit"), CWord("Crédit"),
                    CWord("Solde")>>,
       rowset |-> { <<Sample.d15, CWord("VIR INV-042"), Sample.a50, CNone, Sample.a950>>,
                    <<Sample.d15, CWord("VIR AUTRE"), CNone, Sample.a70, Sample.a950>> }],
      [header |-> <<CWord("Date"), CWord("Libellé"), CWord("Solde"), CWord("Montant")>>,
       rowset |-> { <<Sample.d15, CWord("VIR INV-042"), Sample.a950, Sample.minus150>>,
                    <<Sample.d05, CWord("VIR AUTRE"), Sample.a950, Sample.a150>> }],
      [header |-> <<CWord("Réf"), CWord("x")>>,
       rowset |-> { <<Sample.d15, Sample.a150>> }] }

PdfTables ==
    UNION { { <<l.header>> \o rs : rs \in SeqsUpTo(l.rowset, MaxStmtRows) } :
            l \in TableLayouts }

\* text lines: a dated line with an amount, a line whose date does not
\* exist, a line without a leading date
TextLines ==
    { [date_s |-> Some(DmyString(15, 1)), desc |-> "VIR INV-042",
       amt_s |-> Some(<<"-", "1", "5", "0", ",", "0", "0">>)],
      [date_s |-> Some(DmyString(45, 13)), desc |-> "VIR AUTRE",
       amt_s |-> Some(<<"1", "5", "0", ",", "0", "0">>)],
      [date_s |-> None, desc |-> "VIR AUTRE", amt_s |-> None] }

PdfPages ==
    { [tables |-> ts, lines |-> ls] :
        ts \in {<<>>} \cup {<<tb>> : tb \in PdfTables},
        ls \in SeqsUpTo(TextLines, MaxLines) }

\* a second page, when the statement has one
SecondPages ==
    { [tables |-> <<>>,
       lines |-> <<[date_s |-> Some(DmyString(5, 2)), desc |-> "VIR AUTRE",
                    amt_s |-> Some(<<"7", "0", ",", "0", "0">>)]>>],
      [tables |-> <<>>, lines |-> <<>>] }

PdfFiles ==
    { [kind |-> "pdf", columns |-> <<>>, rows |-> <<>>, pages |-> ps] :
        ps \in {<<p1>> : p1 \in PdfPages}
               \cup {<<p1, p2>> : p1 \in PdfPages, p2 \in SecondPages} }

StatementFiles == FrameFiles \cup PdfFiles

(***************************************************************************)
(* Specification of the statement load: load_bank_statement is called once *)
(* on a file; it returns a table or raises.                                *)
(***************************************************************************)

InitLoad ==
    /\ amt_text = <<>>
    /\ amt_result = None
    /\ invoices = <<>>
    /\ bank_df = None
    /\ report = <<>>
    /\ stmt_file \in {Some(f) : f \in StatementFiles}
    /\ upload = None
    /\ pc = "load_call"

LoadStatement ==
    /\ pc = "load_call"
    /\ LET r == load_bank_statement(Val(stmt_file))
       IN  IF r.raised
           THEN pc' = "load_raised" /\ bank_df' = bank_df
           ELSE pc' = "load_return" /\ bank_df' = Some(r.table)
    /\ UNCHANGED <<amt_text, amt_result, invoices, report, stmt_file, upload>>

NextLoad == LoadStatement

SpecLoad == InitLoad /\ [][NextLoad]_vars

(***************************************************************************)
(* Specification of the matcher: match_invoices_to_bank is called once on  *)
(* an invoice list and a table.                                            *)
(***************************************************************************)

InitMatch ==
    /\ amt_text = <<>>
    /\ amt_result = None
    /\ invoices \in InvoiceLists
    /\ bank_df \in {Some(tb) : tb \in Tables}
    /\ report = <<>>
    /\ stmt_file = None
    /\ upload = None
    /\ pc = "match_call"

MatchInvoices ==
    /\ pc = "match_call"
    /\ \E tol \in Tolerances, delta \in DayDeltas :
          report' = Some(match_invoices_to_bank(invoices, Val(bank_df), tol, delta))
    /\ pc' = "match_return"
    /\ UNCHANGED <<amt_text, amt_result, invoices, bank_df, stmt_file, upload>>

NextMatch == MatchInvoices

SpecMatch == InitMatch /\ [][NextMatch]_vars

(***************************************************************************)
(* Claims about the matcher                                                *)
(***************************************************************************)

Returned == pc = "match_return" /\ ~Val(report).raised
Rows == Val(report).rows
Bank == Val(bank_df)

\* the gates as the claims state them, for an invoice record of the report
AmountGate(total, tx, tol) ==
    total.t = "num" /\ Abs(Abs(Val(tx.amount)) - Abs(total.n)) <= tol

ParsedInvoiceDate(date) ==
    IF date.t = "str" THEN dateparser_parse(DateStringOf(date), FALSE) ELSE None

DateGate(date, tx, delta) ==
    IsNone(ParsedInvoiceDate(date))
    \/ LET inv == Ordinal(Val(ParsedInvoiceDate(date)))
       IN  inv <= Ordinal(Val(tx.date)) /\ Ordinal(Val(tx.date)) <= inv + delta

Passing(r) ==
    {k \in 1..Len(Bank) :
        /\ AmountGate(r.total_amount, Bank[k], Val(report).amount_tolerance)
        /\ DateGate(r.invoice_date, Bank[k], Val(report).max_days_delta)}

\* C1: every row with matched=true has a total_amount that is present and
\* within amount_tolerance of the bank amount, signs ignored; an invoice
\* without total_amount is reported matched=false.
C1_AmountGate ==
    Returned =>
        \A i \in 1..Len(Rows) :
            /\ Rows[i].matched =>
                  /\ Rows[i].total_amount.t = "num"
                  /\ Abs(Abs(Val(Rows[i].bank_amount)) - Abs(Rows[i].total_amount.n))
                        <= Val(report).amount_tolerance
            /\ Rows[i].total_amount.t = "none" => ~Rows[i].matched

\* an invoice of +150.00 matched a transaction of -150.00, and an invoice
\* without total met a non-empty table
C1_Witness ==
    /\ Returned
    /\ Len(Rows) = 2
    /\ Rows[1].matched /\ Rows[1].total_amount = PyNum(15000)
    /\ Val(Rows[1].bank_amount) = -15000
    /\ Rows[2].total_amount = PyNone /\ ~Rows[2].matched
    /\ Len(Bank) > 0

\* C2: with a parsable invoice date, the selected transaction is dated on or
\* after the invoice date and at most max_days_delta days after it; with an
\* absent invoice date only the amount gate filters.
C2_DateGate ==
    Returned =>
        \A i \in 1..Len(Rows) :
            LET r == Rows[i]
                inv == ParsedInvoiceDate(r.invoice_date)
            IN  /\ (r.matched /\ ~IsNone(inv)) =>
                      LET tx == Val(dateparser_parse(Val(r.bank_date), FALSE))
                      IN  /\ Ordinal(tx) >= Ordinal(Val(inv))
                          /\ Ordinal(tx) - Ordinal(Val(inv)) <= Val(report).max_days_delta
                /\ r.invoice_date = PyNone =>
                      (r.matched <=>
                          \E k \in 1..Len(Bank) :
                              AmountGate(r.total_amount, Bank[k],
                                         Val(report).amount_tolerance))

\* a dated invoice was matched although the table also holds an earlier and
\* a too late transaction of the right amount, and an undated invoice was
\* matched with a transaction dated before the others' invoice date
C2_Witness ==
    /\ Returned
    /\ Len(Rows) = 2 /\ Len(Bank) = 2
    /\ Bank[1].date = Some([m |-> 1, d |-> 5])
    /\ Bank[2].date = Some([m |-> 1, d |-> 15])
    /\ Rows[1].invoice_date = PyDateStr(IsoString(InvoiceDay))
    /\ Rows[1].matched /\ Rows[1].bank_date = Some(IsoString([m |-> 1, d |-> 15]))
    /\ Rows[2].invoice_date = PyNone
    /\ Rows[2].matched /\ Rows[2].bank_date = Some(IsoString([m |-> 1, d |-> 5]))

\* the score of the claim: similarity of number and description, 0 without
\* a number, plus 5 for equal absolute amounts
ClaimScore(r, tx) ==
    (IF r.invoice_number.t = "str"
     THEN partial_ratio(lower(r.invoice_number.s), lower(tx.description))
     ELSE 0)
    + (IF Abs(Val(tx.amount)) = Abs(r.total_amount.n) THEN 500 ELSE 0)

\* C3: the transaction returned is, among those passing both gates, the one
\* of maximum score, and the earliest of the table among those of maximum
\* score.
C3_BestScoreEarliest ==
    Returned =>
        \A i \in 1..Len(Rows) :
            LET r == Rows[i]
            IN  r.matched =>
                    \E k \in Passing(r) :
                        /\ \A j \in Passing(r) :
                              /\ ClaimScore(r, Bank[j]) <= ClaimScore(r, Bank[k])
                              /\ ClaimScore(r, Bank[j]) = ClaimScore(r, Bank[k]) => k <= j
                        /\ r.match_score = Some(ClaimScore(r, Bank[k]))
                        /\ r.bank_date = Some(IsoString(Val(Bank[k].date)))
                        /\ r.bank_amount = Bank[k].amount
                        /\ r.bank_description = Some(Bank[k].description)

\* for the first invoice the later of two passing transactions has the
\* higher score and is returned; for the second the two have equal score
\* and the earlier is returned
C3_Witness ==
    /\ Returned
    /\ Len(Rows) = 2 /\ Len(Bank) = 2
    /\ Passing(Rows[1]) = {1, 2} /\ Passing(Rows[2]) = {1, 2}
    /\ Bank[1].description # Bank[2].description
    /\ ClaimScore(Rows[1], Bank[1]) < ClaimScore(Rows[1], Bank[2])
    /\ Rows[1].bank_description = Some(Bank[2].description)
    /\ ClaimScore(Rows[2], Bank[1]) = ClaimScore(Rows[2], Bank[2])
    /\ Rows[2].bank_description = Some(Bank[1].description)

\* C4: one result row per invoice, in input order; matched=true exactly when
\* some transaction passes both gates; a matched=false row carries no
\* match_score, bank_date, bank_amount or bank_description.
C4_OneRowPerInvoice ==
    Returned =>
        /\ Len(Rows) = Len(invoices)
        /\ \A i \in 1..Len(Rows) :
              /\ Rows[i].filename = invoices[i].filename
              /\ Rows[i].invoice_number = invoices[i].invoice_number
              /\ Rows[i].invoice_date = invoices[i].invoice_date
              /\ Rows[i].total_amount = invoices[i].total_amount
              /\ Rows[i].matched <=> Passing(invoices[i]) # {}
              /\ ~Rows[i].matched =>
                    /\ IsNone(Rows[i].match_score) /\ IsNone(Rows[i].bank_date)
                    /\ IsNone(Rows[i].bank_amount) /\ IsNone(Rows[i].bank_description)

\* a report of two rows, the first unmatched against a non-empty table and
\* the second matched
C4_Witness ==
    /\ Returned
    /\ Len(invoices) = 2 /\ Len(Rows) = 2 /\ Len(Bank) > 0
    /\ ~Rows[1].matched /\ Rows[1].filename = "a.pdf"
    /\ Rows[2].matched /\ Rows[2].filename = "b.pdf"

(***************************************************************************)
(* Claims about the statement load                                         *)
(***************************************************************************)

Loaded == pc = "load_return"
File == Val(stmt_file)
Table == Val(bank_df)

\* C8: every row of the table returned by load_bank_statement has a date
\* and an amount that are not null, whatever the kind of source.
C8_NoPartialRow ==
    Loaded =>
        \A k \in 1..Len(Table) :
            ~IsNone(Table[k].date) /\ ~IsNone(Table[k].amount)

\* a CSV file of two rows, one of them without a parsable amount, gave a
\* table of one row
C8_Witness ==
    /\ Loaded
    /\ File.kind = "csv"
    /\ Len(File.rows) = 2
    /\ File.rows[1][3] = CNum(-15000)
    /\ File.rows[2][3] = Sample.abc
    /\ Len(Table) = 1

\* C9: load_bank_statement never returns an empty table for a PDF
\* statement: a PDF without any recoverable transaction is an error.
C9_PdfNeverEmpty ==
    (Loaded /\ File.kind = "pdf") => Len(Table) > 0

\* the data rows of a source with debit and credit columns, as
\* <<debit cell, credit cell>>; <<>> for any other source
DebitCreditRows ==
    IF File.kind = "pdf"
    THEN IF /\ Len(File.pages) = 1
            /\ Len(File.pages[1].tables) = 1
            /\ File.pages[1].lines = <<>>
            /\ Len(File.pages[1].tables[1][1]) >= 4
            /\ File.pages[1].tables[1][1][3] = CWord("Débit")
            /\ File.pages[1].tables[1][1][4] = CWord("Crédit")
         THEN [k \in 1..(Len(File.pages[1].tables[1]) - 1) |->
                  <<File.pages[1].tables[1][k + 1][3],
                    File.pages[1].tables[1][k + 1][4]>>]
         ELSE <<>>
    ELSE IF Len(File.columns) = 4 /\ File.columns[3] = "Debit"
            /\ File.columns[4] = "Credit"
    THEN [k \in 1..Len(File.rows) |-> <<File.rows[k][3], File.rows[k][4]>>]
    ELSE <<>>

\* the cell holds an amount other than zero
NonZero(c) ==
    \/ c.t = "num" /\ c.n # 0
    \/ /\ c.t = "str"
       /\ ~IsNone(parse_amount(TextOf(c)))
       /\ Cents(Val(parse_amount(TextOf(c)))) # 0

\* C10: in the table loaded from a source with separate debit and credit
\* columns, a row with a non-zero debit has a negative amount and a row
\* with an empty or zero debit and a non-zero credit has a positive amount.
\* The rows of the table are those of the source, in order, when none was
\* dropped.
C10_DebitNegativeCreditPositive ==
    (Loaded /\ DebitCreditRows # <<>> /\ Len(Table) = Len(DebitCreditRows)) =>
        \A k \in 1..Len(Table) :
            /\ NonZero(DebitCreditRows[k][1]) => Val(Table[k].amount) < 0
            /\ (~NonZero(DebitCreditRows[k][1]) /\ NonZero(DebitCreditRows[k][2]))
                  => Val(Table[k].amount) > 0

(***************************************************************************)
(* Inputs of a session: the invoice files uploaded, what the enrichment    *)
(* service answers for each of them, and the statement uploaded.           *)
(***************************************************************************)

MaxUploads == 1
MaxSessionRows == 1

Text(id, numbers, hint, token, totals, amounts) ==
    [id |-> id, numbers |-> numbers, hint |-> hint, token |-> token,
     totals |-> totals, amounts |-> amounts]

\* an invoice with a number, a date and a total line; a text in which
\* nothing is found
InvoiceTexts ==
    { Text("t1", <<None, Some("inv-042"), None>>, Some(DmyString(10, 1)),
           Some(DmyString(10, 1)),
           <<Some(<<" ", "1", "5", "0", ",", "0", "0">>), None>>,
           << <<"0", "4", "2">>, <<"1", "0">>, <<"0", "1">>,
              <<"2", "0", "2", "4">>, <<" ", "1", "5", "0", ",", "0", "0">> >>),
      Text("t2", <<None, None, None>>, None, None, <<None, None>>, <<>>) }

Fields(number, date, total, currency) ==
    [invoice_number |-> number, invoice_date |-> date,
     total_amount |-> total, currency |-> currency]

\* JSON objects: well-formed fields; a total as a decimal string; a total
\* with its currency; a number as a JSON number; a date as a JSON array
Answers ==
    { [kind |-> "error", fields |-> NoFields],
      [kind |-> "text", fields |-> NoFields],
      [kind |-> "value", fields |-> NoFields],
      [kind |-> "object", fields |-> NoFields],
      [kind |-> "object",
       fields |-> Fields(PyStr("INV-042"), PyDateStr(IsoString(InvoiceDay)),
                         PyNum(15000), PyStr("EUR"))],
      [kind |-> "object",
       fields |-> Fields(PyNone, PyNone, CText(<<"1", "5", "0", ",", "0", "0">>),
                         PyNone)],
      [kind |-> "object",
       fields |-> Fields(PyNone, PyNone,
                         CText(<<"1", "5", "0", " ", "E", "U", "R">>), PyNone)],
      [kind |-> "object",
       fields |-> Fields(PyNum(42), PyList, PyNum(15000), PyNone)] }

\* the files of one upload, the k-th carrying the k-th name: the text
\* without any field with each answer, the invoice with no answer and with
\* a total as a string, and a file that is no PDF
FileChoices ==
    { [text |-> Some(t), answer |-> a] :
        t \in {x \in InvoiceTexts : x.id = "t2"}, a \in Answers }
    \cup { [text |-> Some(t), answer |-> a] :
              t \in {x \in InvoiceTexts : x.id = "t1"},
              a \in {x \in Answers : x.kind = "error" \/ x.fields.total_amount.t = "str"} }
    \cup { [text |-> None, answer |-> [kind |-> "error", fields |-> NoFields]] }

Uploads ==
    { [k \in 1..Len(c) |->
          [name |-> FileNames[k], text |-> c[k].text, answer |-> c[k].answer]] :
        c \in SeqsUpTo(FileChoices, MaxUploads) }

SessionRows ==
    { <<Sample.d15, CWord("VIR INV-042"), CNum(-15000)>>,
      <<Sample.d05, CWord("VIR AUTRE"), CNum(15000)>>,
      <<Sample.d15, CWord("VIR INV-042"), CNum(-15002)>>,
      <<Sample.d15, CWord("VIR AUTRE"), Sample.abc>> }

\* the sliders of the sidebar: <<amount_tol, date_tolerance_days>>
SessionSettings == { <<0, 90>>, <<2, 5>> }

\* None: no statement in the uploader
SessionStatements ==
    { Some([kind |-> "csv", columns |-> <<"Date", "Libelle", "Montant">>,
            rows |-> rs, pages |-> <<>>]) :
        rs \in SeqsUpTo(SessionRows, MaxSessionRows) }
    \cup { Some([kind |-> "csv", columns |-> <<"x">>, rows |-> << <<Sample.d15>> >>,
                 pages |-> <<>>]),
           Some([kind |-> "csv", columns |-> <<"x", "y">>,
                 rows |-> << <<Sample.d15, CNum(-15000)>> >>, pages |-> <<>>]),
           Some([kind |-> "pdf", columns |-> <<>>, rows |-> <<>>,
                 pages |-> <<[tables |-> <<>>, lines |-> <<>>]>>]),
           None }

(***************************************************************************)
(* src/app/main.py : one run of main() per interaction.  The variables     *)
(* invoices and bank_df are st.session_state["extracted_invoices"] and     *)
(* st.session_state["bank_df"]; report is the matching shown by the run,   *)
(* None when the run shows none.                                           *)
(***************************************************************************)

\* None stands for the return value None
_handle_extraction(clicked, pdf_files, use_llm) ==
    IF ~clicked \/ pdf_files = <<>> THEN [raised |-> FALSE, value |-> None]
    ELSE LET r == extract_invoices_from_pdfs(pdf_files, use_llm)
         IN  [raised |-> r.raised, value |-> Some(r.results)]

_handle_bank_statement_loading(clicked, bank_file) ==
    IF ~clicked \/ IsNone(bank_file) THEN [raised |-> FALSE, value |-> None]
    ELSE LET r == load_bank_statement(Val(bank_file))
         IN  [raised |-> r.raised, value |-> Some(r.table)]

\* the matching computed by _display_results, None when it computes none
_display_results(session_invoices, session_bank, amount_tol, date_tolerance_days) ==
    IF session_invoices # <<>> /\ ~IsNone(session_bank)
    THEN Some(match_invoices_to_bank(session_invoices, Val(session_bank),
                                     amount_tol, date_tolerance_days))
    ELSE None

\* a variant in which a failed load clears the stored table
main_ClearsOnFailure(extract_clicked, load_clicked, pdf_files, use_llm, bank_file, amount_tol, date_tolerance_days) ==
    \E extracted \in {_handle_extraction(extract_clicked, pdf_files, use_llm)},
       loaded \in {_handle_bank_statement_loading(load_clicked, bank_file)} :
       \E new_invoices \in {IF ~IsNone(extracted.value) /\ Val(extracted.value) # <<>>
                            THEN Val(extracted.value) ELSE invoices},
          new_bank \in {IF loaded.raised THEN None
                        ELSE IF ~IsNone(loaded.value) THEN loaded.value ELSE bank_df} :
          \E shown \in {_display_results(new_invoices, new_bank, amount_tol,
                                         date_tolerance_days)} :
             IF extracted.raised
             THEN /\ pc' = "extract_raised"
                  /\ report' = None
                  /\ UNCHANGED <<invoices, bank_df>>
             ELSE /\ invoices' = new_invoices
                  /\ bank_df' = new_bank
                  /\ report' = IF loaded.raised THEN None ELSE shown
                  /\ pc' = IF loaded.raised THEN "load_raised"
                           ELSE IF ~IsNone(shown) /\ Val(shown).raised
                           THEN "match_raised" ELSE "shown"

\* main(): an exception of a handler ends the run before the session is
\* updated.  The values of the handlers are bound by \E over a singleton,
\* which computes each of them once.
main(extract_clicked, load_clicked, pdf_files, use_llm, bank_file, amount_tol, date_tolerance_days) ==
    \E extracted \in {_handle_extraction(extract_clicked, pdf_files, use_llm)},
       loaded \in {_handle_bank_statement_loading(load_clicked, bank_file)} :
       \E new_invoices \in {IF ~IsNone(extracted.value) /\ Val(extracted.value) # <<>>
                            THEN Val(extracted.value) ELSE invoices},
          new_bank \in {IF ~IsNone(loaded.value) THEN loaded.value ELSE bank_df} :
          \E shown \in {_display_results(new_invoices, new_bank, amount_tol,
                                         date_tolerance_days)} :
             IF extracted.raised
             THEN /\ pc' = "extract_raised"
                  /\ report' = None
                  /\ UNCHANGED <<invoices, bank_df>>
             ELSE IF loaded.raised
             THEN /\ pc' = "load_raised"
                  /\ report' = None
                  /\ UNCHANGED <<invoices, bank_df>>
             ELSE /\ invoices' = new_invoices
                  /\ bank_df' = new_bank
                  /\ report' = shown
                  /\ pc' = IF ~IsNone(shown) /\ Val(shown).raised
                           THEN "match_raised" ELSE "shown"

InitSession ==
    /\ amt_text = <<>>
    /\ amt_result = None
    /\ invoices = <<>>
    /\ bank_df = None
    /\ report = None
    /\ stmt_file = None
    /\ upload = None
    /\ pc = "session_start"

\* the run after a click on the extraction button
ClickExtract ==
    /\ \E pdf_files \in Uploads, use_llm \in BOOLEAN, settings \in SessionSettings :
          main(TRUE, FALSE, pdf_files, use_llm, None, settings[1], settings[2])
    /\ UNCHANGED <<amt_text, amt_result, stmt_file, upload>>

\* the run after a click on the statement button
ClickLoad ==
    /\ \E bank_file \in SessionStatements, settings \in SessionSettings :
          main(FALSE, TRUE, <<>>, FALSE, bank_file, settings[1], settings[2])
    /\ UNCHANGED <<amt_text, amt_result, stmt_file, upload>>

\* the run after a change of a setting
ChangeSetting ==
    /\ \E settings \in SessionSettings :
          main(FALSE, FALSE, <<>>, FALSE, None, settings[1], settings[2])
    /\ UNCHANGED <<amt_text, amt_result, stmt_file, upload>>

NextSession == ClickExtract \/ ClickLoad \/ ChangeSetting

SpecSession == InitSession /\ [][NextSession]_vars

(***************************************************************************)
(* Claims about the session                                                *)
(***************************************************************************)

\* C5: matching never fails: whatever invoice list extract_invoices_from_pdfs
\* produced, with or without enrichment and whatever JSON object the
\* service answered, and whatever table load_bank_statement produced,
\* match_invoices_to_bank returns a report and raises no error.
C5_MatchingNeverFails ==
    ~IsNone(report) => ~Val(report).raised

\* the tables that a load of a statement of the uploader returns
LoadedTables ==
    { Some(load_bank_statement(Val(f)).table) :
        f \in {g \in SessionStatements \ {None} : ~load_bank_statement(Val(g)).raised} }

\* the invoice lists that an extraction of an upload returns
ExtractedLists ==
    { extract_invoices_from_pdfs(fs, b).results :
        fs \in {g \in Uploads : g # <<>> /\ \A k \in 1..Len(g) : ~IsNone(g[k].text)},
        b \in BOOLEAN }

\* C16: the steps of a session are atomic: a run whose statement load or
\* whose extraction raises leaves the stored invoice list and the stored
\* table as they were; the stored table changes only to the table that a
\* load returned, and the stored invoice list only to the list that an
\* extraction returned.
C16_FailedStepKeepsSession ==
    [][ /\ pc' \in {"load_raised", "extract_raised"} =>
              (invoices' = invoices /\ bank_df' = bank_df)
        /\ bank_df' # bank_df => (pc' # "load_raised" /\ bank_df' \in LoadedTables)
        /\ invoices' # invoices => (pc' # "extract_raised" /\ invoices' \in ExtractedLists)
      ]_vars

\* a load fails in a session that holds invoices and a table
C16_Witness ==
    /\ pc = "load_raised"
    /\ invoices # <<>>
    /\ ~IsNone(bank_df)
    /\ Val(bank_df) # <<>>

(***************************************************************************)
(* extract_invoices_from_pdfs on one upload: the files of the upload, each *)
(* with its text and with what the enrichment service answers for it.      *)
(***************************************************************************)

MaxExtractFiles == 2

\* the texts of a session, and a text whose "total" line carries no figure
\* ("sous-total, voir detail / remise 20,00 / net a payer 99,00"): the
\* first pattern captures ", ", the second does not match
ExtractTexts ==
    InvoiceTexts
    \cup { Text("t3", <<None, None, None>>, None, None,
                <<Some(<<",", " ">>), None>>,
                << <<",", " ">>, <<" ", "2", "0", ",", "0", "0">>,
                   <<" ", "9", "9", ",", "0", "0">> >>) }

\* a JSON object with the keys filename and raw_text, and with the falsy
\* values "", null and 0 for the fields
ForgedAnswer ==
    [kind |-> "object",
     fields |-> [invoice_number |-> PyStr(""), invoice_date |-> PyNone,
                 total_amount |-> PyNum(0), currency |-> PyStr("USD"),
                 filename |-> PyStr("x.pdf"), raw_text |-> PyStr("forged")]]

\* the text without any field with each answer; the invoice with no
\* answer, a total with its currency, well-formed fields and the forged
\* object; the text without a figure; a file that is no PDF
ExtractChoices ==
    { [text |-> Some(t), answer |-> a] :
        t \in {x \in ExtractTexts : x.id = "t2"}, a \in Answers \cup {ForgedAnswer} }
    \cup { [text |-> Some(t), answer |-> a] :
              t \in {x \in ExtractTexts : x.id = "t1"},
              a \in {x \in Answers \cup {ForgedAnswer} :
                        \/ x.kind = "error"
                        \/ x.fields.total_amount \in {CText(<<"1", "5", "0", " ", "E", "U", "R">>), PyNum(0)}
                        \/ x.fields.currency = PyStr("EUR")} }
    \cup { [text |-> Some(t), answer |-> [kind |-> "text", fields |-> NoFields]] :
              t \in {x \in ExtractTexts : x.id = "t3"} }
    \cup { [text |-> None, answer |-> [kind |-> "error", fields |-> NoFields]] }

ExtractUploads ==
    { [k \in 1..Len(c) |->
          [name |-> FileNames[k], text |-> c[k].text, answer |-> c[k].answer]] :
        c \in SeqsUpTo(ExtractChoices, MaxExtractFiles) }

InitExtract ==
    /\ amt_text = <<>>
    /\ amt_result = None
    /\ invoices = <<>>
    /\ bank_df = None
    /\ report = None
    /\ stmt_file = None
    /\ upload \in {Some([files |-> fs, use_llm |-> b]) : fs \in ExtractUploads, b \in BOOLEAN}
    /\ pc = "extract_call"

\* the call of extract_invoices_from_pdfs and its return
Extract ==
    /\ pc = "extract_call"
    /\ \E r \in {extract_invoices_from_pdfs(Val(upload).files, Val(upload).use_llm)} :
          /\ invoices' = r.results
          /\ pc' = IF r.raised THEN "extract_raised" ELSE "extract_return"
    /\ UNCHANGED <<amt_text, amt_result, bank_df, report, stmt_file, upload>>

NextExtract == Extract

SpecExtract == InitExtract /\ [][NextExtract]_vars

(***************************************************************************)
(* Claims about the extraction                                             *)
(***************************************************************************)

Extracted == pc = "extract_return"
Files == Val(upload).files
UseLlm == Val(upload).use_llm

\* the enrichment of file f fails: no answer or an error status, a body or
\* a "response" that is no JSON, JSON that is no object
EnrichmentFails(f) == f.answer.kind \in {"error", "text", "value"}

\* the record holds the fields that heuristic_parse finds in the text
HeuristicFields(rec, text) ==
    \A key \in DOMAIN heuristic_parse(text) : rec[key] = heuristic_parse(text)[key]

\* C11: a failure of the enrichment call raises nothing out of
\* extract_invoices_from_pdfs: when every file of the upload can be read the
\* call returns one record per file, in upload order, and the record of a
\* file whose enrichment failed holds the fields of the heuristic parse.
C11_EnrichmentFailureKeepsHeuristic ==
    pc # "extract_call" =>
        /\ (\A k \in 1..Len(Files) : ~IsNone(Files[k].text)) =>
              Extracted /\ Len(invoices) = Len(Files)
        /\ Extracted =>
              \A k \in 1..Len(invoices) :
                 /\ invoices[k].filename = Files[k].name
                 /\ invoices[k].raw_text = Val(Files[k].text).id
                 /\ (UseLlm /\ EnrichmentFails(Files[k])) =>
                       HeuristicFields(invoices[k], Val(Files[k].text))

\* enrichment is on, the call fails for the first file, and the second
\* file is processed and enriched
C11_Witness ==
    /\ Extracted
    /\ UseLlm
    /\ Len(Files) = 2
    /\ Files[1].answer.kind = "error"
    /\ Files[1].text # Files[2].text
    /\ invoices[1].invoice_number = PyStr("inv-042")
    /\ invoices[2].invoice_number = PyStr("INV-042")

\* C12: in every record that extract_invoices_from_pdfs returns,
\* total_amount is absent or a number, never a string or a value of another
\* type, with or without enrichment and whatever JSON object the service
\* answered.
C12_TotalAbsentOrNumber ==
    Extracted => \A k \in 1..Len(invoices) : invoices[k].total_amount.t \in {"none", "num"}

(***************************************************************************)
(* Claims about the PDF reader                                             *)
(***************************************************************************)

\* the PDF statement without the text of its pages: its tables only
TablesOnly(file) ==
    [file EXCEPT !.pages = [k \in 1..Len(file.pages) |->
                               [tables |-> file.pages[k].tables, lines |-> <<>>]]]

\* the table that the tables of the PDF statement give, <<>> when they
\* give no row
TableRows == LoadFrame(_read_bank_pdf_to_dataframe(TablesOnly(File))).table

\* C13: for a PDF statement, the text lines contribute transactions only
\* when no table yielded a usable row: when the tables of the document give
\* rows, the returned table holds these rows and no other, so a transaction
\* printed in a table and in the text of its page appears once.
C13_TextOnlyAsFallback ==
    (Loaded /\ File.kind = "pdf" /\ TableRows # <<>>) => Table = TableRows

\* the header texts of the tables of the PDF statement
HeadersOfFile ==
    { [j \in 1..Len(File.pages[p].tables[t][1]) |->
          HeaderText(File.pages[p].tables[t][1][j])] :
        p \in {q \in 1..Len(File.pages) : File.pages[q].tables # <<>>}, t \in {1} }

\* the first header containing the earliest term of the vocabulary that
\* some header contains, 0 when no header contains a term
RECURSIVE InVocabularyOrder(_, _)
InVocabularyOrder(std, vocabulary) ==
    IF vocabulary = <<>> THEN 0
    ELSE LET hits == {i \in 1..Len(std) : Head(vocabulary) \in TermsIn(std[i])}
         IN  IF hits # {} THEN CHOOSE i \in hits : \A j \in hits : i <= j
             ELSE InVocabularyOrder(std, Tail(vocabulary))

\* the map of the headers follows the vocabulary order
FollowsVocabulary(headers, col_map) ==
    LET std == [i \in 1..Len(headers) |-> _std_header(headers[i])]
        c_date == InVocabularyOrder(std, <<"date">>)
        c_desc == InVocabularyOrder(std, <<"description", "libelle", "label",
                                           "narration", "details">>)
        c_amount == InVocabularyOrder(std, <<"montant", "amount", "solde">>)
    IN  /\ (c_date = 0 \/ c_desc = 0) => IsNone(col_map)
        /\ ~IsNone(col_map) =>
              /\ Val(col_map).date = c_date
              /\ Val(col_map).description = c_desc
              /\ c_amount # 0 =>
                    /\ Val(col_map).amount = c_amount
                    /\ Val(col_map).debit = 0
                    /\ Val(col_map).credit = 0

\* C14: _find_table_column_map tries the terms of a field in vocabulary
\* order: the column of a field is the first header containing the earliest
\* term that some header contains ("montant" before "solde", wherever the
\* headers stand); there is no map without a date header or without a
\* description header, and the map is an amount map when an amount column
\* and debit or credit columns can be found.
C14_VocabularyOrder ==
    (pc # "load_call" /\ File.kind = "pdf") =>
        \A headers \in HeadersOfFile :
           FollowsVocabulary(headers, _find_table_column_map(headers))

\* the rows that _read_bank_pdf_to_dataframe computes for the statement
FirstPass == _read_bank_pdf_to_dataframe(File).rows

\* C17: for a PDF statement the second normalization is the identity: the
\* returned table has the rows of _read_bank_pdf_to_dataframe, each with
\* the date and the amount computed there, also for a day of 12 or less.
C17_SecondPassIdentity ==
    (Loaded /\ File.kind = "pdf") =>
        /\ Len(Table) = Len(FirstPass)
        /\ \A k \in 1..Len(Table) :
              /\ Table[k].date = Some(FirstPass[k][1].date)
              /\ Table[k].amount = Some(FirstPass[k][3].n)

(***************************************************************************)
(* Claims about the heuristic fields                                       *)
(***************************************************************************)

\* the patterns of TOTAL_PATTERNS that match the text
MatchingPatterns(text) == {i \in 1..Len(text.totals) : ~IsNone(text.totals[i])}

\* the parse of what the first matching pattern captured
FirstCaptureParsed(text) ==
    LET first == CHOOSE i \in MatchingPatterns(text) : \A j \in MatchingPatterns(text) : i <= j
    IN  FieldOf(PyNum, OptMap(Cents, ParsedAmount(text.totals[first])))

\* C15: _find_total_amount uses the fallback maximum only when no total
\* pattern matches the text: when a pattern matches, the total of the
\* record (without enrichment) is the parse of what the first matching
\* pattern captured.
C15_FallbackOnlyWithoutMatch ==
    (Extracted /\ ~UseLlm) =>
        \A k \in 1..Len(invoices) :
           MatchingPatterns(Val(Files[k].text)) # {} =>
              invoices[k].total_amount = FirstCaptureParsed(Val(Files[k].text))

(***************************************************************************)
(* Claims about the overlay of the enrichment                              *)
(***************************************************************************)

\* the keys of the answer of file f whose value is falsy
FalsyKeys(f) == {key \in DOMAIN f.answer.fields : ~Truthy(f.answer.fields[key])}

\* C18: whatever the service answers, the filename and the raw_text of a
\* record are those of its file, also when the answer holds these keys,
\* and a field for which the answer holds a falsy value (null, "", 0)
\* keeps the value of the heuristic parse.
C18_SourceFieldsKept ==
    Extracted =>
        \A k \in 1..Len(invoices) :
           /\ invoices[k].filename = Files[k].name
           /\ invoices[k].raw_text = Val(Files[k].text).id
           /\ (UseLlm /\ Files[k].answer.kind = "object") =>
                 \A key \in FalsyKeys(Files[k]) \cap DOMAIN heuristic_parse(Val(Files[k].text)) :
                    invoices[k][key] = heuristic_parse(Val(Files[k].text))[key]

\* the answer for an invoice holds the keys filename and raw_text, "" for
\* the number and 0 for the total: its currency is overlaid, nothing else
C18_Witness ==
    /\ Extracted
    /\ UseLlm
    /\ Len(Files) >= 1
    /\ Files[1].answer = ForgedAnswer
    /\ Val(Files[1].text).id = "t1"
    /\ invoices[1].filename = "a.pdf"
    /\ invoices[1].raw_text = "t1"
    /\ invoices[1].invoice_number = PyStr("inv-042")
    /\ invoices[1].total_amount = PyNum(15000)
    /\ invoices[1].currency = PyStr("USD")

====
